---- MODULE Spec2Model ----
(***************************************************************************)
(* Supervision engine of the bpm daemon: the process registry, the request *)
(* dispatcher (foreground thread) and the monitor loop (background         *)
(* thread).  Every registry method takes the registry lock once, so each   *)
(* call of a registry method is one atomic step; spawning a child and      *)
(* delivering a signal are steps of their own, taken without the lock.     *)
(***************************************************************************)
EXTENDS Integers, Sequences, FiniteSets, TLC

\* ------------------------------------------------------------------ bounds
MaxPid == 2      \* children the OS can create in one run (pids 1..MaxPid)
MaxCmds == 2     \* requests the dispatcher serves in one run
HcRetries == 2   \* "retries" of the healthcheck declared by application b
CHUNK_PAYLOAD_CAPACITY == 2   \* payload bytes of one chunk (scaled down)
MaxLen == 5      \* longest reply body, in bytes
MaxByte == 1     \* byte values are 0..MaxByte
MaxDaemons == 3  \* daemon invocations of one user
MaxTime == 2     \* modification times are 1..MaxTime

Names == {"a", "b"}
Threads == {"disp", "mon"}
NameCmds == {"Stop", "Restart", "Delete"}
\* What a client can send where a name is expected: a name, or the ID that
\* the list table shows in its first column.
Ids == {"0"}
Args == Names \cup Ids

\* ------------------------------------------------- application descriptors
\* What the descriptor files on disk declare.  Application a has a working
\* directory and the default restart policy; application b declares a
\* healthcheck and restart policy "never".  The descriptor at "pab" declares
\* both, and there b's healthcheck has "retries": 0.  The descriptor at "pbh"
\* declares b with an http healthcheck and no url, "pempty" is the JSON
\* object {} and "pbad" is not a descriptor at all.
HcNone == [some |-> FALSE, retries |-> 0, check |-> "none", url |-> ""]

AppA == [name |-> "a", policy |-> "on-failure", cwd |-> TRUE, healthcheck |-> HcNone]

AppB(retries) ==
  [name |-> "b", policy |-> "never", cwd |-> FALSE,
   healthcheck |-> [some |-> TRUE, retries |-> retries, check |-> "command",
                   url |-> ""]]

\* convert_healthcheck: an http check without url gets the default url
DefaultUrl == "http://localhost:8080"
AppBHttp ==
  [AppB(HcRetries) EXCEPT !.healthcheck.check = "http",
                          !.healthcheck.url = DefaultUrl]

Paths == {"pa", "pb", "pab", "pbh", "pempty", "pbad", "nofile"}

\* AppConfig::from_file: serde accepts the file as a SingleApp or a MultiApp
from_file_ok(path) == path # "pbad"

\* The project keys of a MultiApp descriptor; {} deserializes as a MultiApp
\* with no project.
MultiApps == {"pab", "pempty"}
projects(path) == IF path = "pab" THEN {"project"} ELSE {}

\* get_apps 194: projects.keys().next().unwrap()
get_apps_panics(path) == path \in MultiApps /\ projects(path) = {}

\* AppConfig::get_apps: the applications of the descriptor at a path.
get_apps(path) ==
  CASE path = "pa" -> <<AppA>>
    [] path = "pb" -> <<AppB(HcRetries)>>
    [] path = "pab" -> <<AppA, AppB(0)>>
    [] path = "pbh" -> <<AppBHttp>>
    [] OTHER -> <<>>

path_exists(path) == path # "nofile"

\* ------------------------------------------------------------ ProcessInfo
ActiveStates == {"Starting", "Running", "Stopping", "Restarting"}
ProcessState == ActiveStates \cup {"Stopped", "Errored"}

\* ProcessInfo::from_app
from_app(app) ==
  [state |-> "Stopped", pid |-> 0, restart_count |-> 0, started_at |-> FALSE,
   auto_restart |-> app.policy \in {"always", "on-failure"},
   healthcheck |-> app.healthcheck, health_status |-> "Unknown",
   last_health_check |-> FALSE, health_failures |-> 0,
   watch_dirs |-> app.cwd]

\* serde: healthcheck and health_status are skipped on serialization and
\* come back as their defaults on deserialization.
Serialize(p) ==
  [state |-> p.state, pid |-> p.pid, restart_count |-> p.restart_count,
   started_at |-> p.started_at, auto_restart |-> p.auto_restart,
   last_health_check |-> p.last_health_check,
   health_failures |-> p.health_failures, watch_dirs |-> p.watch_dirs]

Deserialize_fresh(j) ==
  [state |-> j.state, pid |-> 0, restart_count |-> 0,
   started_at |-> j.started_at, auto_restart |-> j.auto_restart,
   healthcheck |-> HcNone, health_status |-> "Unknown",
   last_health_check |-> j.last_health_check,
   health_failures |-> 0, watch_dirs |-> j.watch_dirs]
Deserialize(j) ==
  [state |-> j.state, pid |-> j.pid, restart_count |-> j.restart_count,
   started_at |-> j.started_at, auto_restart |-> j.auto_restart,
   healthcheck |-> HcNone, health_status |-> "Unknown",
   last_health_check |-> j.last_health_check,
   health_failures |-> j.health_failures, watch_dirs |-> j.watch_dirs]

\* -------------------------------------------------------- ProcessRegistry
\* The registry map is a function from the registered names to ProcessInfo.
EmptyMap == [n \in {} |-> 0]

contains_key(procs, name) == name \in DOMAIN procs

insert(procs, name, info) ==
  [n \in DOMAIN procs \cup {name} |-> IF n = name THEN info ELSE procs[n]]

register_ok(procs, name) == ~contains_key(procs, name)

register_overwrites(procs, name, info) == insert(procs, name, info)
register(procs, name, info) ==
  IF contains_key(procs, name) THEN procs ELSE insert(procs, name, info)

update_state(procs, name, state) ==
  IF contains_key(procs, name)
  THEN [procs EXCEPT ![name].state = state]
  ELSE procs

update_pid_alone(procs, name, pid) ==
  IF contains_key(procs, name)
  THEN IF pid # 0
       THEN [procs EXCEPT ![name].pid = pid, ![name].started_at = TRUE]
       ELSE [procs EXCEPT ![name].pid = 0]
  ELSE procs

update_pid(procs, name, pid) ==
  IF contains_key(procs, name)
  THEN IF pid # 0
       THEN [procs EXCEPT ![name].pid = pid, ![name].started_at = TRUE,
                          ![name].state = "Running"]
       ELSE [procs EXCEPT ![name].pid = 0]
  ELSE procs

increment_restart_count(procs, name) ==
  IF contains_key(procs, name)
  THEN [procs EXCEPT ![name].restart_count = @ + 1]
  ELSE procs

remove(procs, name) == [n \in DOMAIN procs \ {name} |-> procs[n]]

\* combined_usage(pid).ok(): the process-wide SYSTEM snapshot of process.rs
\* is taken once (Lazy) and never refreshed.
combined_usage_ok(snap, pid) == pid \in snap

\* registry.rs refresh_metrics, given the SYSTEM snapshot and the refreshed
\* process table of inner.system.
refresh_metrics(procs, snap, table) ==
  [n \in DOMAIN procs |->
     IF procs[n].pid # 0
        /\ ~combined_usage_ok(snap, procs[n].pid)
        /\ procs[n].pid \notin table
        /\ procs[n].state = "Running"
     THEN [procs[n] EXCEPT !.state = "Errored", !.pid = 0]
     ELSE procs[n]]

check_dead_processes(procs) ==
  {n \in DOMAIN procs : procs[n].state = "Errored" /\ procs[n].auto_restart}

get_running_processes(procs) ==
  {n \in DOMAIN procs : procs[n].state = "Running"}

update_health_status(procs, name, status) ==
  IF contains_key(procs, name)
  THEN [procs EXCEPT ![name].health_status = status,
                     ![name].last_health_check = TRUE]
  ELSE procs

increment_health_failures(procs, name) ==
  IF contains_key(procs, name)
  THEN [procs EXCEPT ![name].health_failures = @ + 1]
  ELSE procs

\* the count increment_health_failures returns
failures_after(procs, name) ==
  IF contains_key(procs, name) THEN procs[name].health_failures + 1 ELSE 0

reset_health_failures(procs, name) ==
  IF contains_key(procs, name)
  THEN [procs EXCEPT ![name].health_failures = 0]
  ELSE procs

save_state(procs) ==
  [exists |-> TRUE, content |-> [n \in DOMAIN procs |-> Serialize(procs[n])]]

load_state(procs, file) ==
  IF ~file.exists THEN procs
  ELSE [n \in DOMAIN procs \cup DOMAIN file.content |->
          IF n \in DOMAIN file.content THEN Deserialize(file.content[n])
          ELSE procs[n]]


\* ------------------------------------------------------------------ state
VARIABLES
  processes,      \* RegistryInner.processes
  ptable,         \* pids of the children not yet seen to have exited
  nextPid,        \* the pid the OS gives to the next child
  SYSTEM,         \* the Lazy process-wide snapshot of process.rs
  stateFile,      \* state.json in the data directory
  file_watchers,  \* keys of the monitor's watcher map
  pc,             \* position of the dispatcher and of the monitor
  sp,             \* the start_process call each thread is in
  disp,           \* locals of the handler the dispatcher runs
  mon,            \* locals of the monitor iteration
  reply,          \* the reply of the last handler that returned
  cmdsLeft,       \* requests still to be served
  \* one request and its reply on the service
  command,            \* the request in flight: what the client encoded
  decoded,            \* the dispatcher's decode_payload(payload)
  response_bytes,     \* send_response: the body being sent
  seq_num,            \* send_response: chunks sent so far
  server_pc,          \* "receive", "sending", "sent"
  sent,               \* the chunks in transmission order
  delivered,          \* indices of sent that the client has received
  in_order,           \* whether the transport delivers in transmission order
  received_chunks,    \* request_server: BTreeMap sequence_number -> bytes
  message_complete,   \* request_server
  client_pc,          \* "start", "waiting", "returned", "timed_out"
  full_message_bytes, \* request_server: the body it returns
  exit_code,          \* main: <<>> while the client runs, then <<code>>
  \* daemon startup
  holders,            \* processes that hold the service open; it exists
                      \* while there is one
  dpc,                \* per daemon invocation: where run_server is
  cpc,                \* a client process: "idle" or "waiting"
  \* the locks
  registry_lock,      \* RwLock<RegistryInner>: its writer and its readers
  system_mutex,       \* process.rs SYSTEM: the thread that holds it
  watcher_lock,       \* FileWatcher::file_times, an RwLock of its own
  ops,                \* per thread: what is left of the call it executes
  \* one file watcher and the directory it watches
  fs,                 \* the files below the watched directory: path -> mtime
  file_times,         \* FileWatcher::file_times
  changed             \* what the last check_changes returned

regVars == <<processes, ptable, nextPid, SYSTEM, stateFile, file_watchers,
             pc, sp, disp, mon, reply, cmdsLeft>>
frameVars == <<command, decoded, response_bytes, seq_num, server_pc, sent,
               delivered, in_order, received_chunks, message_complete,
               client_pc, full_message_bytes, exit_code>>
bootVars == <<holders, dpc, cpc>>
lockVars == <<registry_lock, system_mutex, watcher_lock, ops>>
watchVars == <<fs, file_times, changed>>
ipcVars == <<frameVars, bootVars, lockVars, watchVars>>
vars == <<regVars, ipcVars>>

\* ------------------------------------------------------- common.rs, framing
Bytes == 0..MaxByte

RECURSIVE Strings(_)
Strings(n) ==
  IF n = 0 THEN {<<>>}
  ELSE Strings(n - 1) \cup {Append(b, x) : b \in {y \in Strings(n - 1) : Len(y) = n - 1}, x \in Bytes}

Min(a, b) == IF a < b THEN a ELSE b

\* Command::encode_payload: the first CAPACITY bytes of the input, padded
\* with zero bytes to CAPACITY.
encode_payload(input) ==
  LET len == Min(Len(input), CHUNK_PAYLOAD_CAPACITY)
  IN [i \in 1..CHUNK_PAYLOAD_CAPACITY |-> IF i <= len THEN input[i] ELSE 0]

\* Command::decode_payload: the bytes before the first zero byte.
decode_payload(payload) ==
  LET zeros == {i \in 1..Len(payload) : payload[i] = 0}
      end == IF zeros = {} THEN Len(payload)
             ELSE (CHOOSE i \in zeros : \A j \in zeros : i <= j) - 1
  IN SubSeq(payload, 1, end)

\* MessageChunk::new: the payload is copied into a zeroed array.
MessageChunk(sequence_number, is_last, used_payload_size, payload) ==
  [sequence_number |-> sequence_number, is_last |-> is_last,
   used_payload_size |-> used_payload_size,
   payload |-> [i \in 1..CHUNK_PAYLOAD_CAPACITY |->
                  IF i <= Len(payload) THEN payload[i] ELSE 0]]

\* response_bytes.chunks(chunk_capacity): the k-th slice, k from 0, and
\* whether the iterator has one.
has_chunk(bytes, k) == k * CHUNK_PAYLOAD_CAPACITY < Len(bytes)
chunk_data(bytes, k) ==
  SubSeq(bytes, k * CHUNK_PAYLOAD_CAPACITY + 1,
         Min((k + 1) * CHUNK_PAYLOAD_CAPACITY, Len(bytes)))

\* send_response 534: chunks.peek().is_none()
is_last_first(bytes, k) == k = 0
is_last_chunk(bytes, k) == ~has_chunk(bytes, k + 1)

\* request_server 194: chunk.payload[..chunk.used_payload_size]
payload_data(chunk) == SubSeq(chunk.payload, 1, chunk.used_payload_size)

\* request_server 197-199
completes_always(chunk) == TRUE
completes(chunk) == chunk.is_last

\* request_server 211-214: the values of the BTreeMap in key order, joined.
RECURSIVE extend(_, _)
extend(map, keys) ==
  IF keys = {} THEN <<>>
  ELSE LET k == CHOOSE x \in keys : \A y \in keys : x <= y
       IN map[k] \o extend(map, keys \ {k})

NoCommand == [sent |-> <<>>, payload |-> <<>>, some |-> FALSE]

FrameIdle ==
  /\ command = NoCommand
  /\ decoded = <<>>
  /\ response_bytes = <<>>
  /\ seq_num = 0
  /\ server_pc = "receive"
  /\ sent = <<>>
  /\ delivered = {}
  /\ received_chunks = <<>>
  /\ message_complete = FALSE
  /\ client_pc = "start"
  /\ full_message_bytes = <<>>
  /\ exit_code = <<>>

\* ------------------------------------------------------- daemon startup
Daemons == 1..MaxDaemons
Client == 0

BootIdle ==
  /\ holders = {}
  /\ dpc = [d \in Daemons |-> "init"]
  /\ cpc = "idle"

\* ------------------------------------------------------------- the locks
NoThread == "none"
Unlocked == [writer |-> NoThread, readers |-> {}]

LockIdle ==
  /\ registry_lock = Unlocked
  /\ system_mutex = NoThread
  /\ watcher_lock = Unlocked
  /\ ops = [t \in Threads |-> <<>>]

\* ------------------------------------------------------------ FileWatcher
\* FileWatcher::new: file_times starts as an empty map
NoTimes == [p \in {} |-> 0]

WatchIdle ==
  /\ fs = NoTimes
  /\ file_times = NoTimes
  /\ changed = <<>>

\* No client and no second daemon: the one daemon of the registry model.
IpcIdle == FrameIdle /\ in_order = TRUE /\ BootIdle /\ LockIdle /\ WatchIdle

Line(k, n) == [k |-> k, n |-> n]

SpIdle == [pc |-> "none", name |-> "", pid |-> 0, ret |-> ""]
DispIdle == [cmd |-> "", arg |-> "", pid |-> 0, apps |-> <<>>, todo |-> {},
             results |-> <<>>]
NoProc == [name |-> ""]
MonIdle == [dead |-> {}, running |-> {}, proc |-> NoProc, to_restart |-> {}]

\* The fields of a ProcessInfo clone that its holder reads.
Clone(name, p) ==
  [name |-> name,
   info |-> [restart_count |-> p.restart_count, started_at |-> p.started_at,
             healthcheck |-> p.healthcheck,
             last_health_check |-> p.last_health_check,
             watch_dirs |-> p.watch_dirs]]

\* registry.get(name) on a registered name
Snapshot(name) == Clone(name, processes[name])

\* state.json as an earlier run of the daemon can have left it: absent, or
\* saved while application a was Running as the child with pid 1.
NoFile == [exists |-> FALSE, content |-> EmptyMap]
PrevRun ==
  [a |-> [from_app(AppA) EXCEPT !.state = "Running", !.pid = 1, !.started_at = TRUE]]

\* run_server 52-82: the daemon has loaded the previous state and started
\* the monitor thread; a child of the earlier run may still be alive.
Boot(file) ==
  /\ stateFile = file
  /\ processes = load_state(EmptyMap, stateFile)
  /\ ptable = {processes[n].pid : n \in DOMAIN processes}
  /\ nextPid = Cardinality(ptable) + 1
  /\ SYSTEM = [init |-> FALSE, pids |-> {}]
  /\ file_watchers = {}
  /\ pc = [t \in Threads |-> IF t = "disp" THEN "idle" ELSE "sleep"]
  /\ sp = [t \in Threads |-> SpIdle]
  /\ disp = DispIdle
  /\ mon = MonIdle
  /\ reply = <<>>
  /\ cmdsLeft = MaxCmds

\* a first start of the daemon
Init == Boot(NoFile) /\ IpcIdle

\* a start of the daemon after an earlier run
InitPrev == Boot(save_state(PrevRun)) /\ IpcIdle

\* A first start of the daemon followed by a served "start pb": application
\* b runs as the child with pid 1 and the dispatcher polls again.
InitStarted ==
  /\ stateFile = NoFile
  /\ processes = [b |-> [from_app(AppB(HcRetries)) EXCEPT
                           !.state = "Running", !.pid = 1, !.started_at = TRUE]]
  /\ ptable = {1}
  /\ nextPid = 2
  /\ SYSTEM = [init |-> FALSE, pids |-> {}]
  /\ file_watchers = {}
  /\ pc = [t \in Threads |-> IF t = "disp" THEN "idle" ELSE "sleep"]
  /\ sp = [t \in Threads |-> SpIdle]
  /\ disp = DispIdle
  /\ mon = MonIdle
  /\ reply = <<Line("Started", "b")>>
  /\ cmdsLeft = MaxCmds
  /\ IpcIdle

\* ------------------------------------------------------- shared fragments
\* The handler returns: its reply goes out and the dispatcher polls again.
\* A panic of the main thread unwinds run_server: the process exits and the
\* monitor thread ends with it.
ProcessPanics ==
  /\ pc' = [t \in Threads |-> IF t = "disp" THEN "panicked" ELSE "exited"]
  /\ sp' = [t \in Threads |-> SpIdle]

Finish(lines) ==
  /\ reply' = lines
  /\ disp' = DispIdle
  /\ pc' = [pc EXCEPT !["disp"] = "idle"]
  /\ cmdsLeft' = cmdsLeft - 1

\* The OS process table when a thread looks at it: any of the children may
\* have exited since the last look.
Tables == SUBSET ptable

\* registry.refresh_metrics() under the write lock; the first combined_usage
\* call initialises SYSTEM from the process table of that moment.
RefreshMetrics ==
  \E table \in Tables :
    LET need == \E n \in DOMAIN processes : processes[n].pid # 0
        snap == IF SYSTEM.init THEN SYSTEM.pids ELSE table
    IN /\ processes' = refresh_metrics(processes, snap, table)
       /\ ptable' = table
       /\ SYSTEM' = IF need /\ ~SYSTEM.init
                    THEN [init |-> TRUE, pids |-> table] ELSE SYSTEM

\* server.rs 170-178: a watcher is built for a running-list entry with watch
\* directories and no watcher yet.
WatcherInit(fw, p) ==
  IF p.info.watch_dirs /\ p.name \notin fw THEN fw \cup {p.name} ELSE fw

\* Entering start_process(registry, info) with a continuation.
Call(t, name, ret) ==
  /\ sp' = [sp EXCEPT ![t] = [pc |-> "state", name |-> name, pid |-> 0, ret |-> ret]]
  /\ pc' = [pc EXCEPT ![t] = "in_sp"]

\* Where the monitor goes after one entry of the running list.
AfterRun(rest) == IF rest = {} THEN "poll" ELSE "run_loop"
AfterDead(rest) == IF rest = {} THEN "get_running" ELSE "dead_loop"
AfterFw(rest) == IF rest = {} THEN "sleep" ELSE "fw_loop"

\* ------------------------------------------- start_process (both threads)
\* What the caller does with the Result of start_process.
DispReturn(ok) ==
  LET name == sp["disp"].name
      ret == sp["disp"].ret
  IN /\ UNCHANGED <<mon, file_watchers>>
     /\ CASE ret = "start_ret" ->
               LET res == Append(disp.results,
                                 Line(IF ok THEN "Started" ELSE "FailedToStart", name))
               IN /\ sp' = [sp EXCEPT !["disp"] = SpIdle]
                  /\ IF Tail(disp.apps) = <<>>
                     THEN Finish(res)
                     ELSE /\ disp' = [disp EXCEPT !.results = res, !.apps = Tail(disp.apps)]
                          /\ pc' = [pc EXCEPT !["disp"] = "start_reg"]
                          /\ UNCHANGED <<reply, cmdsLeft>>
          [] ret = "restart_ret" ->
               /\ sp' = [sp EXCEPT !["disp"] = SpIdle]
               /\ Finish(Append(disp.results,
                                Line(IF ok THEN "Restarted" ELSE "FailedToRestart", name)))
          [] ret = "res_ret" ->
               LET res == Append(disp.results,
                                 Line(IF ok THEN "Resurrected" ELSE "FailedToResurrect", name))
               IN IF disp.todo = {}
                  THEN /\ sp' = [sp EXCEPT !["disp"] = SpIdle]
                       /\ Finish(res)
                  ELSE \E n \in disp.todo :
                         /\ disp' = [disp EXCEPT !.results = res, !.todo = @ \ {n}]
                         /\ Call("disp", n, "res_ret")
                         /\ UNCHANGED <<reply, cmdsLeft>>

MonReturn(ok) ==
  LET ret == sp["mon"].ret
  IN /\ UNCHANGED <<disp, reply, cmdsLeft>>
     /\ sp' = [sp EXCEPT !["mon"] = SpIdle]
     /\ CASE ret = "dead_ret" ->
               /\ pc' = [pc EXCEPT !["mon"] = AfterDead(mon.dead)]
               /\ mon' = [mon EXCEPT !.proc = NoProc]
               /\ UNCHANGED file_watchers
          [] ret = "hc_ret" ->
               /\ pc' = [pc EXCEPT !["mon"] = AfterRun(mon.running)]
               /\ file_watchers' = WatcherInit(file_watchers, mon.proc)
               /\ mon' = [mon EXCEPT !.proc = NoProc]
          [] ret = "fw_ret" ->
               /\ pc' = [pc EXCEPT !["mon"] = AfterFw(mon.to_restart)]
               /\ mon' = [mon EXCEPT !.proc = NoProc]
               /\ UNCHANGED file_watchers

Return(t, ok) == IF t = "disp" THEN DispReturn(ok) ELSE MonReturn(ok)

\* server.rs 313: registry.update_state(&info.name, Starting)
StartProcessState(t) ==
  /\ sp[t].pc = "state"
  /\ processes' = update_state(processes, sp[t].name, "Starting")
  /\ sp' = [sp EXCEPT ![t].pc = "create"]
  /\ UNCHANGED <<ptable, nextPid, SYSTEM, stateFile, file_watchers, pc, disp,
                 mon, reply, cmdsLeft>>
  /\ UNCHANGED ipcVars

\* server.rs 316-337: the log files are created and the child is spawned.
StartProcessSpawn(t) ==
  /\ sp[t].pc = "create"
  /\ nextPid <= MaxPid
  /\ ptable' = ptable \cup {nextPid}
  /\ nextPid' = nextPid + 1
  /\ sp' = [sp EXCEPT ![t].pc = "pid", ![t].pid = nextPid]
  /\ UNCHANGED <<processes, SYSTEM, stateFile, file_watchers, pc, disp, mon,
                 reply, cmdsLeft>>
  /\ UNCHANGED ipcVars

\* server.rs 316-336: creating a log file or spawning the child fails, and
\* `?` returns the error to the caller.
StartProcessFails(t) ==
  /\ sp[t].pc = "create"
  /\ Return(t, FALSE)
  /\ UNCHANGED <<processes, ptable, nextPid, SYSTEM, stateFile>>
  /\ UNCHANGED ipcVars

\* server.rs 339: registry.update_pid(&info.name, Some(pid))?
StartProcessPid(t) ==
  /\ sp[t].pc = "pid"
  /\ processes' = update_pid(processes, sp[t].name, sp[t].pid)
  /\ Return(t, contains_key(processes, sp[t].name))
  /\ UNCHANGED <<ptable, nextPid, SYSTEM, stateFile>>
  /\ UNCHANGED ipcVars


\* ------------------------------------------------------------- dispatcher
\* server.rs 206-251: a request is taken when the dispatcher polls and there
\* is one to serve; the handler's first registry call is taken with it.
Polling == pc["disp"] = "idle" /\ cmdsLeft > 0

\* server.rs 209-212: List = refresh_metrics, then format_table
ListRefresh ==
  /\ Polling
  /\ RefreshMetrics
  /\ disp' = [DispIdle EXCEPT !.cmd = "List"]
  /\ pc' = [pc EXCEPT !["disp"] = "list_format"]
  /\ UNCHANGED <<nextPid, stateFile, file_watchers, sp, mon, reply, cmdsLeft>>
  /\ UNCHANGED ipcVars

ListFormat ==
  /\ pc["disp"] = "list_format"
  /\ Finish(IF DOMAIN processes = {} THEN <<Line("NoProcesses", "")>>
            ELSE <<Line("Table", "")>>)
  /\ UNCHANGED <<processes, ptable, nextPid, SYSTEM, stateFile, file_watchers, sp, mon>>
  /\ UNCHANGED ipcVars

\* handle_status
HandleStatus ==
  /\ Polling
  /\ \E n \in Names :
       Finish(<<Line(IF contains_key(processes, n) THEN "Status" ELSE "NotFound", n)>>)
  /\ UNCHANGED <<processes, ptable, nextPid, SYSTEM, stateFile, file_watchers, sp, mon>>
  /\ UNCHANGED ipcVars

\* handle_logs 420-458: the record is looked up by the text before ':'; the
\* log files are read, the registry is not changed.
HandleLogs ==
  /\ Polling
  /\ \E n \in Args :
       Finish(<<Line(IF contains_key(processes, n) THEN "Logs" ELSE "NotFound", n)>>)
  /\ UNCHANGED <<processes, ptable, nextPid, SYSTEM, stateFile, file_watchers, sp, mon>>
  /\ UNCHANGED ipcVars

\* handle_disable: the flag is cleared on the clone that get() returned.
HandleDisable ==
  /\ Polling
  /\ \E n \in Names :
       Finish(<<Line(IF contains_key(processes, n) THEN "Disabled" ELSE "NotFound", n)>>)
  /\ UNCHANGED <<processes, ptable, nextPid, SYSTEM, stateFile, file_watchers, sp, mon>>
  /\ UNCHANGED ipcVars

\* handle_save: save_state can fail on the filesystem.
HandleSave ==
  /\ Polling
  /\ \/ /\ stateFile' = save_state(processes)
        /\ Finish(<<Line("Saved", "")>>)
     \/ /\ UNCHANGED stateFile
        /\ Finish(<<Line("FailedToSave", "")>>)
  /\ UNCHANGED <<processes, ptable, nextPid, SYSTEM, file_watchers, sp, mon>>
  /\ UNCHANGED ipcVars

\* handle_start 289-302 for the applications still to do: register the next
\* one; on Err warn and continue, else start_process.
RegisterNext(d) ==
  LET name == Head(d.apps).name
  IN /\ processes' = register(processes, name, from_app(Head(d.apps)))
     /\ IF register_ok(processes, name)
        THEN /\ Call("disp", name, "start_ret")
             /\ disp' = d
             /\ UNCHANGED <<reply, cmdsLeft>>
        ELSE LET res == Append(d.results, Line("Warning", name))
             IN /\ UNCHANGED sp
                /\ IF Tail(d.apps) = <<>>
                   THEN Finish(res)
                   ELSE /\ disp' = [d EXCEPT !.results = res, !.apps = Tail(d.apps)]
                        /\ pc' = [pc EXCEPT !["disp"] = "start_reg"]
                        /\ UNCHANGED <<reply, cmdsLeft>>

\* handle_start 274-293 (handle_enable calls it): the descriptor is read and
\* its first application registered.
HandleStart ==
  /\ Polling
  /\ \E path \in Paths :
       IF ~path_exists(path)
       THEN /\ Finish(<<Line("ConfigNotFound", path)>>)
            /\ UNCHANGED <<processes, sp>>
       ELSE IF ~from_file_ok(path)
       THEN /\ Finish(<<Line("FailedToParse", path)>>)
            /\ UNCHANGED <<processes, sp>>
       ELSE IF get_apps_panics(path)
       THEN /\ ProcessPanics
            /\ UNCHANGED <<processes, disp, reply, cmdsLeft>>
       ELSE RegisterNext([DispIdle EXCEPT !.cmd = "Start", !.arg = path,
                                          !.apps = get_apps(path)])
  /\ UNCHANGED <<ptable, nextPid, SYSTEM, stateFile, file_watchers, mon>>
  /\ UNCHANGED ipcVars

StartRegister ==
  /\ pc["disp"] = "start_reg"
  /\ RegisterNext(disp)
  /\ UNCHANGED <<ptable, nextPid, SYSTEM, stateFile, file_watchers, mon>>
  /\ UNCHANGED ipcVars

\* What follows handle_stop's return value in the handler that called it.
StopDone(d, line) ==
  CASE d.cmd = "Stop" -> Finish(<<line>>)
    [] d.cmd = "Restart" ->
         /\ disp' = [d EXCEPT !.results = <<line>>]
         /\ pc' = [pc EXCEPT !["disp"] = "restart_get"]
         /\ UNCHANGED <<reply, cmdsLeft>>
    [] d.cmd = "Delete" ->
         /\ disp' = [d EXCEPT !.results = <<line>>]
         /\ pc' = [pc EXCEPT !["disp"] = "delete_remove"]
         /\ UNCHANGED <<reply, cmdsLeft>>

\* handle_stop 345-347, entered from Stop, Restart or Delete:
\* registry.get(name) and the pid of the clone
StopGet ==
  /\ Polling
  /\ \E c \in NameCmds, n \in Args :
       LET d == [DispIdle EXCEPT !.cmd = c, !.arg = n]
       IN IF ~contains_key(processes, n)
          THEN StopDone(d, Line("NotFound", n))
          ELSE IF processes[n].pid = 0
               THEN StopDone(d, Line("NotRunning", n))
               ELSE /\ disp' = [d EXCEPT !.pid = processes[n].pid]
                    /\ pc' = [pc EXCEPT !["disp"] = "stop_stopping"]
                    /\ UNCHANGED <<reply, cmdsLeft>>
  /\ UNCHANGED <<processes, ptable, nextPid, SYSTEM, stateFile, file_watchers, sp, mon>>
  /\ UNCHANGED ipcVars

\* handle_stop 348
StopStopping ==
  /\ pc["disp"] = "stop_stopping"
  /\ processes' = update_state(processes, disp.arg, "Stopping")
  /\ pc' = [pc EXCEPT !["disp"] = "stop_term"]
  /\ UNCHANGED <<ptable, nextPid, SYSTEM, stateFile, file_watchers, sp, disp, mon, reply, cmdsLeft>>
  /\ UNCHANGED ipcVars

\* kill(pid, sig) is Ok when the OS knows the process
kill_ok(table, pid) == pid \in table

\* handle_stop 351-359: when kill(pid, SIGTERM) fails the handler returns at
\* once; else it sleeps 2 s.
StopSigterm ==
  /\ pc["disp"] = "stop_term"
  /\ \E table \in Tables :
       /\ ptable' = table
       /\ IF ~kill_ok(table, disp.pid)
          THEN StopDone(disp, Line("FailedSigterm", disp.arg))
          ELSE /\ pc' = [pc EXCEPT !["disp"] = "stop_recheck"]
               /\ UNCHANGED <<disp, reply, cmdsLeft>>
  /\ UNCHANGED <<processes, nextPid, SYSTEM, stateFile, file_watchers, sp, mon>>
  /\ UNCHANGED ipcVars

\* handle_stop 362-363: registry.get(name) again
StopRecheck ==
  /\ pc["disp"] = "stop_recheck"
  /\ pc' = [pc EXCEPT !["disp"] =
              IF contains_key(processes, disp.arg) /\ processes[disp.arg].pid # 0
              THEN "stop_kill" ELSE "stop_stopped"]
  /\ UNCHANGED <<processes, ptable, nextPid, SYSTEM, stateFile, file_watchers, sp, disp, mon, reply, cmdsLeft>>
  /\ UNCHANGED ipcVars

\* handle_stop 364-367: kill(pid, SIGKILL), result ignored
StopSigkill ==
  /\ pc["disp"] = "stop_kill"
  /\ ptable' = ptable \ {disp.pid}
  /\ pc' = [pc EXCEPT !["disp"] = "stop_stopped"]
  /\ UNCHANGED <<processes, nextPid, SYSTEM, stateFile, file_watchers, sp, disp, mon, reply, cmdsLeft>>
  /\ UNCHANGED ipcVars

\* handle_stop 371
StopStopped ==
  /\ pc["disp"] = "stop_stopped"
  /\ processes' = update_state(processes, disp.arg, "Stopped")
  /\ pc' = [pc EXCEPT !["disp"] = "stop_clear"]
  /\ UNCHANGED <<ptable, nextPid, SYSTEM, stateFile, file_watchers, sp, disp, mon, reply, cmdsLeft>>
  /\ UNCHANGED ipcVars

\* handle_stop 372-374
StopClearPid ==
  /\ pc["disp"] = "stop_clear"
  /\ processes' = update_pid(processes, disp.arg, 0)
  /\ StopDone(disp, Line("Stopped", disp.arg))
  /\ UNCHANGED <<ptable, nextPid, SYSTEM, stateFile, file_watchers, sp, mon>>
  /\ UNCHANGED ipcVars

\* handle_restart 386-394
RestartGet ==
  /\ pc["disp"] = "restart_get"
  /\ IF contains_key(processes, disp.arg)
     THEN /\ Call("disp", disp.arg, "restart_ret")
          /\ UNCHANGED <<disp, reply, cmdsLeft>>
     ELSE /\ Finish(disp.results)
          /\ UNCHANGED sp
  /\ UNCHANGED <<processes, ptable, nextPid, SYSTEM, stateFile, file_watchers, mon>>
  /\ UNCHANGED ipcVars

\* handle_delete 400-403
DeleteRemove ==
  /\ pc["disp"] = "delete_remove"
  /\ processes' = remove(processes, disp.arg)
  /\ IF contains_key(processes, disp.arg)
     THEN Finish(Append(disp.results, Line("Deleted", disp.arg)))
     ELSE Finish(<<Line("NotFound", disp.arg)>>)
  /\ UNCHANGED <<ptable, nextPid, SYSTEM, stateFile, file_watchers, sp, mon>>
  /\ UNCHANGED ipcVars

\* handle_resurrect 488: load_state
ResurrectLoad ==
  /\ Polling
  /\ processes' = load_state(processes, stateFile)
  /\ disp' = [DispIdle EXCEPT !.cmd = "Resurrect"]
  /\ pc' = [pc EXCEPT !["disp"] = "res_list"]
  /\ UNCHANGED <<ptable, nextPid, SYSTEM, stateFile, file_watchers, sp, mon, reply, cmdsLeft>>
  /\ UNCHANGED ipcVars

\* handle_resurrect 497: the records of the list that are started
resurrected_all(procs) == DOMAIN procs
resurrected(procs) ==
  {n \in DOMAIN procs : procs[n].state \in {"Running", "Stopped"}}

\* handle_resurrect 493-498: registry.list(); the clones that are Running or
\* Stopped are started, in the map's iteration order.
ResurrectList ==
  /\ pc["disp"] = "res_list"
  /\ LET todo == resurrected(processes)
     IN IF todo = {}
        THEN /\ Finish(<<Line("NoneToResurrect", "")>>)
             /\ UNCHANGED sp
        ELSE \E n \in todo :
               /\ disp' = [disp EXCEPT !.todo = todo \ {n}]
               /\ Call("disp", n, "res_ret")
               /\ UNCHANGED <<reply, cmdsLeft>>
  /\ UNCHANGED <<processes, ptable, nextPid, SYSTEM, stateFile, file_watchers, mon>>
  /\ UNCHANGED ipcVars

\* ---------------------------------------------------------------- monitor
\* server.rs 87-88: sleep, then refresh_metrics
MonRefresh ==
  /\ pc["mon"] = "sleep"
  /\ RefreshMetrics
  /\ pc' = [pc EXCEPT !["mon"] = "check_dead"]
  /\ UNCHANGED <<nextPid, stateFile, file_watchers, sp, disp, mon, reply, cmdsLeft>>
  /\ UNCHANGED ipcVars

\* server.rs 91
MonCheckDead ==
  /\ pc["mon"] = "check_dead"
  /\ LET dead == check_dead_processes(processes)
     IN /\ mon' = [mon EXCEPT !.dead = dead]
        /\ pc' = [pc EXCEPT !["mon"] = AfterDead(dead)]
  /\ UNCHANGED <<processes, ptable, nextPid, SYSTEM, stateFile, file_watchers, sp, disp, reply, cmdsLeft>>
  /\ UNCHANGED ipcVars

\* server.rs 92-93: next name of the dead list, registry.get(&name)
MonDeadNext ==
  /\ pc["mon"] = "dead_loop"
  /\ \E n \in mon.dead :
       IF contains_key(processes, n)
       THEN /\ mon' = [mon EXCEPT !.dead = @ \ {n}, !.proc = Snapshot(n)]
            /\ pc' = [pc EXCEPT !["mon"] = "dead_state"]
       ELSE /\ mon' = [mon EXCEPT !.dead = @ \ {n}]
            /\ pc' = [pc EXCEPT !["mon"] = AfterDead(mon.dead \ {n})]
  /\ UNCHANGED <<processes, ptable, nextPid, SYSTEM, stateFile, file_watchers, sp, disp, reply, cmdsLeft>>
  /\ UNCHANGED ipcVars

\* server.rs 95
MonDeadRestarting ==
  /\ pc["mon"] = "dead_state"
  /\ processes' = update_state(processes, mon.proc.name, "Restarting")
  /\ pc' = [pc EXCEPT !["mon"] = "dead_inc"]
  /\ UNCHANGED <<ptable, nextPid, SYSTEM, stateFile, file_watchers, sp, disp, mon, reply, cmdsLeft>>
  /\ UNCHANGED ipcVars

\* server.rs 96-99
MonDeadIncrement ==
  /\ pc["mon"] = "dead_inc"
  /\ processes' = increment_restart_count(processes, mon.proc.name)
  /\ Call("mon", mon.proc.name, "dead_ret")
  /\ UNCHANGED <<ptable, nextPid, SYSTEM, stateFile, file_watchers, disp, mon, reply, cmdsLeft>>
  /\ UNCHANGED ipcVars

\* server.rs 107
MonGetRunning ==
  /\ pc["mon"] = "get_running"
  /\ LET running == {Snapshot(n) : n \in get_running_processes(processes)}
     IN /\ mon' = [mon EXCEPT !.running = running]
        /\ pc' = [pc EXCEPT !["mon"] = AfterRun(running)]
  /\ UNCHANGED <<processes, ptable, nextPid, SYSTEM, stateFile, file_watchers, sp, disp, reply, cmdsLeft>>
  /\ UNCHANGED ipcVars

\* server.rs 111-125, the time since the last check or the start being an
\* input
\* check_http 80-93: the host and port of the url, joined and parsed as a
\* SocketAddr, which only an IP literal is.
IpUrls == {"http://127.0.0.1:8080"}
check_health_panics(hc_config) ==
  hc_config.check = "http" /\ hc_config.url \notin IpUrls

should_check(p, elapsed) ==
  IF p.info.last_health_check THEN elapsed ELSE p.info.started_at /\ elapsed

\* server.rs 108-129 and 170-178: the next entry of the running list; when a
\* check is due the probe runs and update_health_status stores its result,
\* else the entry only gets its watcher.
MonRunNext ==
  /\ pc["mon"] = "run_loop"
  /\ \E p \in mon.running, elapsed \in BOOLEAN :
       IF p.info.healthcheck.some /\ should_check(p, elapsed)
            /\ check_health_panics(p.info.healthcheck)
       THEN /\ pc' = [pc EXCEPT !["mon"] = "panicked"]
            /\ UNCHANGED <<processes, mon, file_watchers>>
       ELSE IF p.info.healthcheck.some /\ should_check(p, elapsed)
       THEN \E status \in {"Healthy", "Unhealthy"} :
              /\ processes' = update_health_status(processes, p.name, status)
              /\ mon' = [mon EXCEPT !.running = @ \ {p}, !.proc = p]
              /\ pc' = [pc EXCEPT !["mon"] =
                          IF status = "Healthy" THEN "hc_reset" ELSE "hc_inc"]
              /\ UNCHANGED file_watchers
       ELSE /\ file_watchers' = WatcherInit(file_watchers, p)
            /\ mon' = [mon EXCEPT !.running = @ \ {p}]
            /\ pc' = [pc EXCEPT !["mon"] = AfterRun(mon.running \ {p})]
            /\ UNCHANGED processes
  /\ UNCHANGED <<ptable, nextPid, SYSTEM, stateFile, sp, disp, reply, cmdsLeft>>
  /\ UNCHANGED ipcVars

\* server.rs 132-135
MonHcReset ==
  /\ pc["mon"] = "hc_reset"
  /\ processes' = reset_health_failures(processes, mon.proc.name)
  /\ file_watchers' = WatcherInit(file_watchers, mon.proc)
  /\ mon' = [mon EXCEPT !.proc = NoProc]
  /\ pc' = [pc EXCEPT !["mon"] = AfterRun(mon.running)]
  /\ UNCHANGED <<ptable, nextPid, SYSTEM, stateFile, sp, disp, reply, cmdsLeft>>
  /\ UNCHANGED ipcVars

\* server.rs 145
retries_reached(failures, hc_config) == failures >= hc_config.retries

\* server.rs 136-145
MonHcIncrement ==
  /\ pc["mon"] = "hc_inc"
  /\ processes' = increment_health_failures(processes, mon.proc.name)
  /\ IF retries_reached(failures_after(processes, mon.proc.name), mon.proc.info.healthcheck)
     THEN /\ pc' = [pc EXCEPT !["mon"] = "hc_restarting"]
          /\ UNCHANGED <<mon, file_watchers>>
     ELSE /\ file_watchers' = WatcherInit(file_watchers, mon.proc)
          /\ mon' = [mon EXCEPT !.proc = NoProc]
          /\ pc' = [pc EXCEPT !["mon"] = AfterRun(mon.running)]
  /\ UNCHANGED <<ptable, nextPid, SYSTEM, stateFile, sp, disp, reply, cmdsLeft>>
  /\ UNCHANGED ipcVars

\* server.rs 147-148
MonHcRestarting ==
  /\ pc["mon"] = "hc_restarting"
  /\ processes' = update_state(processes, mon.proc.name, "Restarting")
  /\ pc' = [pc EXCEPT !["mon"] = "hc_reset2"]
  /\ UNCHANGED <<ptable, nextPid, SYSTEM, stateFile, file_watchers, sp, disp, mon, reply, cmdsLeft>>
  /\ UNCHANGED ipcVars

\* server.rs 149
MonHcResetAfter ==
  /\ pc["mon"] = "hc_reset2"
  /\ processes' = reset_health_failures(processes, mon.proc.name)
  /\ pc' = [pc EXCEPT !["mon"] = "hc_get"]
  /\ UNCHANGED <<ptable, nextPid, SYSTEM, stateFile, file_watchers, sp, disp, mon, reply, cmdsLeft>>
  /\ UNCHANGED ipcVars

\* server.rs 150-151
MonHcGet ==
  /\ pc["mon"] = "hc_get"
  /\ IF contains_key(processes, mon.proc.name)
     THEN /\ Call("mon", mon.proc.name, "hc_ret")
          /\ UNCHANGED <<mon, file_watchers>>
     ELSE /\ file_watchers' = WatcherInit(file_watchers, mon.proc)
          /\ mon' = [mon EXCEPT !.proc = NoProc]
          /\ pc' = [pc EXCEPT !["mon"] = AfterRun(mon.running)]
          /\ UNCHANGED sp
  /\ UNCHANGED <<processes, ptable, nextPid, SYSTEM, stateFile, disp, reply, cmdsLeft>>
  /\ UNCHANGED ipcVars

\* server.rs 182-190: every watcher is polled; the names whose watched files
\* changed since the watcher's last scan go to to_restart.
MonPoll ==
  /\ pc["mon"] = "poll"
  /\ \E to_restart \in SUBSET file_watchers :
       /\ mon' = [mon EXCEPT !.to_restart = to_restart]
       /\ pc' = [pc EXCEPT !["mon"] = AfterFw(to_restart)]
  /\ UNCHANGED <<file_watchers, processes, ptable, nextPid, SYSTEM, stateFile, sp, disp, reply, cmdsLeft>>
  /\ UNCHANGED ipcVars

\* server.rs 193-194
MonFwNext ==
  /\ pc["mon"] = "fw_loop"
  /\ \E n \in mon.to_restart :
       IF contains_key(processes, n)
       THEN /\ mon' = [mon EXCEPT !.to_restart = @ \ {n}, !.proc = Snapshot(n)]
            /\ pc' = [pc EXCEPT !["mon"] = "fw_state"]
       ELSE /\ mon' = [mon EXCEPT !.to_restart = @ \ {n}]
            /\ pc' = [pc EXCEPT !["mon"] = AfterFw(mon.to_restart \ {n})]
  /\ UNCHANGED <<processes, ptable, nextPid, SYSTEM, stateFile, file_watchers, sp, disp, reply, cmdsLeft>>
  /\ UNCHANGED ipcVars

\* server.rs 196-197
MonFwRestarting ==
  /\ pc["mon"] = "fw_state"
  /\ processes' = update_state(processes, mon.proc.name, "Restarting")
  /\ Call("mon", mon.proc.name, "fw_ret")
  /\ UNCHANGED <<ptable, nextPid, SYSTEM, stateFile, file_watchers, disp, mon, reply, cmdsLeft>>
  /\ UNCHANGED ipcVars

\* ---------------------------------------------------------- specification
DispStep ==
  \/ ListRefresh \/ ListFormat \/ HandleStatus \/ HandleLogs \/ HandleDisable
  \/ HandleSave \/ HandleStart \/ StartRegister \/ StopGet \/ StopStopping \/ StopSigterm
  \/ StopRecheck \/ StopSigkill \/ StopStopped \/ StopClearPid \/ RestartGet
  \/ DeleteRemove \/ ResurrectLoad \/ ResurrectList
  \/ StartProcessState("disp") \/ StartProcessSpawn("disp")
  \/ StartProcessFails("disp") \/ StartProcessPid("disp")

MonLoop ==
  \/ MonRefresh \/ MonCheckDead \/ MonDeadNext \/ MonDeadRestarting
  \/ MonDeadIncrement \/ MonGetRunning \/ MonRunNext \/ MonHcReset
  \/ MonHcIncrement \/ MonHcRestarting \/ MonHcResetAfter \/ MonHcGet
  \/ MonPoll \/ MonFwNext \/ MonFwRestarting
  \/ StartProcessState("mon") \/ StartProcessSpawn("mon") \/ StartProcessPid("mon")

MonStep == MonLoop \/ StartProcessFails("mon")

Next == DispStep \/ MonStep

Spec == Init /\ [][Next]_vars

SpecPrev == InitPrev /\ [][Next]_vars

SpecStarted == InitStarted /\ [][Next]_vars

\* The monitor thread is always scheduled again, and here the OS never
\* refuses the monitor a child while pids are left.
LiveNext == DispStep \/ MonLoop

LiveSpec == Init /\ [][LiveNext]_vars /\ WF_vars(MonLoop)

\* ------------------------------------------- one request and its reply
\* request_server 173-181: the client sends the command it built with
\* encode_payload.
RequestServer ==
  /\ client_pc = "start"
  /\ \E input \in Strings(CHUNK_PAYLOAD_CAPACITY) :
       command' = [sent |-> input, payload |-> encode_payload(input),
                   some |-> TRUE]
  /\ client_pc' = "waiting"
  /\ UNCHANGED <<decoded, response_bytes, seq_num, server_pc, sent, delivered,
                 in_order, received_chunks, message_complete,
                 full_message_bytes>>
  /\ UNCHANGED <<exit_code, regVars, bootVars, lockVars, watchVars>>

\* run_server 207-252 and send_response 530-532: the dispatcher takes the
\* request, decodes its payload, and the handler's reply becomes the body.
ServerReceive ==
  /\ server_pc = "receive"
  /\ command.some
  /\ decoded' = decode_payload(command.payload)
  /\ \E response \in Strings(MaxLen) : response_bytes' = response
  /\ seq_num' = 0
  /\ server_pc' = "sending"
  /\ UNCHANGED <<command, sent, delivered, in_order, received_chunks,
                 message_complete, client_pc, full_message_bytes>>
  /\ UNCHANGED <<exit_code, regVars, bootVars, lockVars, watchVars>>

\* send_response 533-544: one turn of the while-let loop
SendChunk ==
  /\ server_pc = "sending"
  /\ has_chunk(response_bytes, seq_num)
  /\ LET data == chunk_data(response_bytes, seq_num)
     IN sent' = Append(sent, MessageChunk(seq_num,
                                         is_last_chunk(response_bytes, seq_num),
                                         Len(data), data))
  /\ seq_num' = seq_num + 1
  /\ UNCHANGED <<command, decoded, response_bytes, server_pc, delivered,
                 in_order, received_chunks, message_complete, client_pc,
                 full_message_bytes>>
  /\ UNCHANGED <<exit_code, regVars, bootVars, lockVars, watchVars>>

\* send_response 533 and 547: chunks.next() is None, Ok(()) is returned
SendReturns ==
  /\ server_pc = "sending"
  /\ ~has_chunk(response_bytes, seq_num)
  /\ server_pc' = "sent"
  /\ UNCHANGED <<command, decoded, response_bytes, seq_num, sent, delivered,
                 in_order, received_chunks, message_complete, client_pc,
                 full_message_bytes>>
  /\ UNCHANGED <<exit_code, regVars, bootVars, lockVars, watchVars>>

\* The chunks the transport can hand to the client next.
Pending == (1..Len(sent)) \ delivered
Deliverable ==
  IF in_order THEN {i \in Pending : \A j \in Pending : i <= j} ELSE Pending

\* request_server 186-199: pending_response.receive() returns a chunk
Receive ==
  /\ client_pc = "waiting"
  /\ ~message_complete
  /\ \E i \in Deliverable :
       /\ delivered' = delivered \cup {i}
       /\ received_chunks' =
            [k \in DOMAIN received_chunks \cup {sent[i].sequence_number} |->
               IF k = sent[i].sequence_number THEN payload_data(sent[i])
               ELSE received_chunks[k]]
       /\ message_complete' = completes(sent[i])
  /\ UNCHANGED <<command, decoded, response_bytes, seq_num, server_pc, sent,
                 in_order, client_pc, full_message_bytes>>
  /\ UNCHANGED <<exit_code, regVars, bootVars, lockVars, watchVars>>

\* request_server 186 and 205-207: the timeout elapses before a chunk with
\* is_last was received.
TimesOut ==
  /\ client_pc = "waiting"
  /\ ~message_complete
  /\ client_pc' = "timed_out"
  /\ UNCHANGED <<command, decoded, response_bytes, seq_num, server_pc, sent,
                 delivered, in_order, received_chunks, message_complete,
                 full_message_bytes>>
  /\ UNCHANGED <<exit_code, regVars, bootVars, lockVars, watchVars>>

\* request_server 209-217
Returns ==
  /\ client_pc = "waiting"
  /\ message_complete
  /\ full_message_bytes' = extend(received_chunks, DOMAIN received_chunks)
  /\ client_pc' = "returned"
  /\ UNCHANGED <<command, decoded, response_bytes, seq_num, server_pc, sent,
                 delivered, in_order, received_chunks, message_complete>>
  /\ UNCHANGED <<exit_code, regVars, bootVars, lockVars, watchVars>>

InitFrame ==
  /\ Boot(NoFile)
  /\ FrameIdle /\ in_order \in BOOLEAN
  /\ BootIdle /\ LockIdle /\ WatchIdle

\* run_client 87-90: NodeBuilder::create()? fails and run_client returns Err
NodeFails ==
  /\ client_pc = "start"
  /\ client_pc' = "no_node"
  /\ UNCHANGED <<command, decoded, response_bytes, seq_num, server_pc, sent,
                 delivered, in_order, received_chunks, message_complete,
                 full_message_bytes>>
  /\ UNCHANGED <<exit_code, regVars, bootVars, lockVars, watchVars>>

\* run_client 95-109: what run_client returns, given how request_server
\* ended: both arms of the match print and fall through to Ok(()).
run_client(ended) == IF ended = "no_node" THEN "Err" ELSE "Ok"

\* main 113-116: exit(1) on Err, else main returns and the code is 0
main_exit_code(result) == IF result = "Err" THEN 1 ELSE 0

Exits ==
  /\ client_pc \in {"returned", "timed_out", "no_node"}
  /\ exit_code = <<>>
  /\ exit_code' = <<main_exit_code(run_client(client_pc))>>
  /\ UNCHANGED <<command, decoded, response_bytes, seq_num, server_pc, sent,
                 delivered, in_order, received_chunks, message_complete,
                 client_pc, full_message_bytes>>
  /\ UNCHANGED <<regVars, bootVars, lockVars, watchVars>>

FrameNext ==
  \/ RequestServer \/ ServerReceive \/ SendChunk \/ SendReturns
  \/ Receive \/ TimesOut \/ Returns \/ NodeFails \/ Exits

SpecFrame == InitFrame /\ [][FrameNext]_vars

\* ------------------------------------------------------- daemon startup
\* The service exists while a process holds it open.
service_exists == holders # {}

\* server_running 33-50 and run_server 58-61: open() succeeds when the
\* service exists, whoever created it; then the daemon reports another
\* instance and exits with code 1.
ServerRunning(d) ==
  /\ dpc[d] = "init"
  /\ dpc' = [dpc EXCEPT ![d] = IF service_exists THEN "exit1" ELSE "checked"]
  /\ UNCHANGED <<holders, cpc>>
  /\ UNCHANGED <<regVars, frameVars, lockVars, watchVars>>

\* run_server 63-73: load_state, then open_or_create()
OpenOrCreate(d) ==
  /\ dpc[d] = "checked"
  /\ holders' = holders \cup {d}
  /\ dpc' = [dpc EXCEPT ![d] = "opened"]
  /\ UNCHANGED cpc
  /\ UNCHANGED <<regVars, frameVars, lockVars, watchVars>>

\* run_server 75: server_builder().create()?.  It succeeds on a service
\* without server; on a service that has one the outcome is the service's
\* server limit, and on Err run_server returns it.
CreateServer(d) ==
  /\ dpc[d] = "opened"
  /\ \E ok \in IF \E e \in Daemons : dpc[e] = "serving" THEN BOOLEAN ELSE {TRUE} :
       IF ok
       THEN dpc' = [dpc EXCEPT ![d] = "serving"] /\ UNCHANGED holders
       ELSE dpc' = [dpc EXCEPT ![d] = "failed"] /\ holders' = holders \ {d}
  /\ UNCHANGED cpc
  /\ UNCHANGED <<regVars, frameVars, lockVars, watchVars>>

\* run_server 206 and 256-262: node.wait() fails on a termination signal,
\* the state is saved and the daemon ends.
DaemonStops(d) ==
  /\ dpc[d] = "serving"
  /\ dpc' = [dpc EXCEPT ![d] = "stopped"]
  /\ holders' = holders \ {d}
  /\ UNCHANGED cpc
  /\ UNCHANGED <<regVars, frameVars, lockVars, watchVars>>

\* request_server 173-178: the client opens the service, or creates it
ClientOpens ==
  /\ cpc = "idle"
  /\ cpc' = "waiting"
  /\ holders' = holders \cup {Client}
  /\ UNCHANGED dpc
  /\ UNCHANGED <<regVars, frameVars, lockVars, watchVars>>

\* request_server 205-217: it returns, with the reply or the timeout error
ClientCloses ==
  /\ cpc = "waiting"
  /\ cpc' = "idle"
  /\ holders' = holders \ {Client}
  /\ UNCHANGED dpc
  /\ UNCHANGED <<regVars, frameVars, lockVars, watchVars>>

BootNext ==
  \/ \E d \in Daemons :
       ServerRunning(d) \/ OpenOrCreate(d) \/ CreateServer(d) \/ DaemonStops(d)
  \/ ClientOpens \/ ClientCloses

SpecBoot == Init /\ [][BootNext]_vars

\* ------------------------------------- one FileWatcher and its directory
\* The files that can exist below the watched directory: two that the
\* watcher's pattern matches, one that it does not match and one below a
\* directory that FileWatcher::new puts on the ignore list.
Files ==
  {[dir |-> ".", stem |-> "index", ext |-> "js"],
   [dir |-> "src", stem |-> "main", ext |-> "js"],
   [dir |-> "src", stem |-> "readme", ext |-> "md"],
   [dir |-> "node_modules", stem |-> "dep", ext |-> "js"]}

\* watch.rs 31-38
ignore_dirs == {"node_modules", ".git", "target", "__pycache__", ".venv", "venv"}

\* the patterns the watcher of test_file_watcher is built with: "*.js"
patterns == {"js"}

\* watch.rs 91-113: no pattern matches every file; "*.ext" matches the
\* extension.
matches_pattern(path) == patterns = {} \/ path.ext \in patterns

\* watch.rs 58-88: the walk skips an ignored directory and records the
\* modification time of every matching file.
scan_directory(files) ==
  [p \in {q \in DOMAIN files : q.dir \notin ignore_dirs /\ matches_pattern(q)}
     |-> files[p]]

\* watch.rs 48-56: init scans into the map, which new left empty
init(files) == scan_directory(files)

FsStates == UNION {[S -> 1..MaxTime] : S \in SUBSET Files}

\* The orders in which the entries of a HashMap can be iterated.
Orderings(S) ==
  {s \in [1..Cardinality(S) -> S] : \A i, j \in 1..Cardinality(S) : i # j => s[i] # s[j]}

\* watch.rs 130-139: the paths of the fresh scan that the snapshot lacks or
\* has with another time
new_or_modified(old_times, current_times) ==
  {p \in DOMAIN current_times :
     p \notin DOMAIN old_times \/ current_times[p] # old_times[p]}

\* watch.rs 142-146: the paths of the snapshot that the fresh scan lacks
deleted_none(old_times, current_times) == {}
deleted(old_times, current_times) ==
  {p \in DOMAIN old_times : p \notin DOMAIN current_times}

\* A file is created or written: it gets a modification time.
WriteFile ==
  /\ \E p \in Files, t \in 1..MaxTime :
       /\ p \in DOMAIN fs => fs[p] # t
       /\ fs' = [q \in DOMAIN fs \cup {p} |-> IF q = p THEN t ELSE fs[q]]
  /\ UNCHANGED <<file_times, changed>>
  /\ UNCHANGED <<regVars, frameVars, bootVars, lockVars>>

RemoveFile ==
  /\ \E p \in DOMAIN fs : fs' = [q \in DOMAIN fs \ {p} |-> fs[q]]
  /\ UNCHANGED <<file_times, changed>>
  /\ UNCHANGED <<regVars, frameVars, bootVars, lockVars>>

\* watch.rs 119-155: check_changes returns the new, modified and deleted
\* paths and stores the fresh scan.
CheckChanges ==
  /\ LET current_times == scan_directory(fs)
     IN /\ \E first \in Orderings(new_or_modified(file_times, current_times)),
              second \in Orderings(deleted(file_times, current_times)) :
              changed' = first \o second
        /\ file_times' = current_times
  /\ UNCHANGED fs
  /\ UNCHANGED <<regVars, frameVars, bootVars, lockVars>>

\* watch.rs 122-124: read_dir fails and `?` returns the error before the
\* snapshot is looked at; the monitor drops the error (server.rs 183).
CheckChangesFails ==
  /\ UNCHANGED <<fs, file_times, changed>>
  /\ UNCHANGED <<regVars, frameVars, bootVars, lockVars>>

\* server.rs 171-177: the watcher is kept once new and init have run.
InitWatch ==
  /\ Boot(NoFile)
  /\ FrameIdle /\ in_order = TRUE
  /\ BootIdle /\ LockIdle
  /\ fs \in FsStates
  /\ file_times = init(fs)
  /\ changed = <<>>

WatchNext == WriteFile \/ RemoveFile \/ CheckChanges \/ CheckChangesFails

SpecWatch == InitWatch /\ [][WatchNext]_vars

\* ------------------------------------------------- the threads and the locks
\* What a call does to the locks, as the list of its steps: "write"/"unwrite"
\* and "read"/"unread" take and drop a guard of the registry's RwLock,
\* "lock"/"unlock" one of SYSTEM, "wwrite".."wunread" one of a watcher's
\* file_times; "spawn", "signal", "probe", "sleep" and "file" are the
\* system calls made in between.
Cat(A, B) == {a \o b : a \in A, b \in B}

\* registry.rs 280-337, 429-465: register, update_state, update_pid,
\* increment_restart_count, remove, update_health_status, .. take the write
\* guard for the body of the method.
update_ops == {<<"write", "unwrite">>}

\* registry.rs 290-294, 339-346, 397-427: get, list, check_dead_processes,
\* get_running_processes take the read guard for the body of the method.
read_ops == {<<"read", "unread">>}

\* process.rs 20-42: the guard of SYSTEM lives to the end of the function
collect_descendants_ops == <<"lock", "unlock">>

\* process.rs 44-58: collect_descendants has returned, and dropped its guard,
\* before SYSTEM is locked again; its error returns at once.
combined_usage_nested == {<<"lock", "lock", "unlock", "unlock">>}
combined_usage_ops ==
  {collect_descendants_ops, collect_descendants_ops \o <<"lock", "unlock">>}

RECURSIVE usage_of(_)
usage_of(count) ==
  IF count = 0 THEN {<<>>}
  ELSE Cat(combined_usage_ops, usage_of(count - 1))

\* registry.rs 348-394: the write guard is held from the first line to the
\* end, across one combined_usage per record with a pid.
refresh_metrics_ops ==
  Cat(Cat({<<"write">>}, UNION {usage_of(count) : count \in 0..MaxPid}),
      {<<"unwrite">>})

\* server.rs 307-342: update_state, the log files, then spawn and update_pid,
\* or an error from the files or the spawn.
start_process_held == {<<"write", "file", "spawn", "unwrite">>}
start_process_ops ==
  Cat(update_ops, {<<"file">>, <<"file", "spawn", "write", "unwrite">>})

\* server.rs 344-381: no record or no pid; SIGTERM fails; SIGTERM, the sleep
\* of 2 s, get, SIGKILL, update_state and update_pid.
handle_stop_ops ==
  Cat(read_ops,
      {<<>>,
       <<"write", "unwrite", "signal">>,
       <<"write", "unwrite", "signal", "sleep", "read", "unread", "signal",
         "write", "unwrite", "write", "unwrite">>})

\* server.rs 383-395
handle_restart_ops ==
  Cat(Cat(handle_stop_ops, read_ops),
      {<<>>} \cup Cat({<<"sleep">>}, start_process_ops))

\* server.rs 397-404
handle_delete_ops == Cat(handle_stop_ops, update_ops)

\* server.rs 274-305: the descriptor is read, then register and start_process
handle_start_ops == Cat(Cat({<<"file">>}, update_ops), start_process_ops)

\* server.rs 209-212: refresh_metrics, then format_table, which calls list
handle_list_ops == Cat(refresh_metrics_ops, read_ops)

\* registry.rs 508-519: the read guard is held while the file is written
save_state_ops == {<<"read", "file", "unread">>}

\* registry.rs 521-537: the file is read before the write guard is taken
load_state_ops == {<<"file">>, <<"file", "write", "unwrite">>}

\* server.rs 486-510
handle_resurrect_ops ==
  Cat(Cat(load_state_ops, read_ops), {<<>>} \cup start_process_ops)

DispatcherCalls ==
  handle_list_ops \cup read_ops \cup handle_start_ops \cup handle_stop_ops
    \cup handle_restart_ops \cup handle_delete_ops \cup save_state_ops
    \cup handle_resurrect_ops

\* server.rs 93-99 and 193-197: get, update_state, (increment_restart_count,)
\* start_process
restart_ops ==
  Cat(Cat(read_ops, update_ops), start_process_ops \cup Cat(update_ops, start_process_ops))

\* server.rs 128-162: the probe, update_health_status, then
\* reset_health_failures, or increment_health_failures and at the limit
\* update_state, reset_health_failures, get and start_process.
health_check_ops ==
  Cat(Cat({<<"probe">>}, Cat(update_ops, update_ops)),
      {<<>>} \cup Cat(Cat(Cat(update_ops, update_ops), read_ops), start_process_ops))

\* watch.rs 48-56: init scans under the write guard of file_times
watcher_init_ops == {<<"wwrite", "file", "wunwrite">>}

\* watch.rs 119-155: the scan, the read guard for the comparison, dropped
\* before the write guard is taken for the replacement
check_changes_ops ==
  {<<"file">>, <<"file", "wread", "wunread", "wwrite", "wunwrite">>}

\* server.rs 86-203: the calls of a monitor iteration
MonitorCalls ==
  {<<"sleep">>} \cup refresh_metrics_ops \cup read_ops \cup restart_ops
    \cup health_check_ops \cup watcher_init_ops \cup check_changes_ops

Calls(t) == IF t = "disp" THEN DispatcherCalls ELSE MonitorCalls

NextOp(t, op) == ops[t] # <<>> /\ Head(ops[t]) = op
Pop(t) == ops' = [ops EXCEPT ![t] = Tail(@)]

\* The thread goes on to its next call.
BeginCall(t) ==
  /\ ops[t] = <<>>
  /\ \E call \in Calls(t) : call # <<>> /\ ops' = [ops EXCEPT ![t] = call]
  /\ UNCHANGED <<registry_lock, system_mutex, watcher_lock>>
  /\ UNCHANGED <<regVars, frameVars, bootVars, watchVars>>

\* RwLock::write returns when no guard is out.
AcquireWrite(t) ==
  /\ NextOp(t, "write")
  /\ registry_lock = Unlocked
  /\ registry_lock' = [registry_lock EXCEPT !.writer = t]
  /\ Pop(t)
  /\ UNCHANGED <<system_mutex, watcher_lock>>
  /\ UNCHANGED <<regVars, frameVars, bootVars, watchVars>>

ReleaseWrite(t) ==
  /\ NextOp(t, "unwrite")
  /\ registry_lock' = [registry_lock EXCEPT !.writer = NoThread]
  /\ Pop(t)
  /\ UNCHANGED <<system_mutex, watcher_lock>>
  /\ UNCHANGED <<regVars, frameVars, bootVars, watchVars>>

\* RwLock::read returns when no write guard is out; a thread that asks again
\* while it holds a guard may block for ever.
AcquireRead(t) ==
  /\ NextOp(t, "read")
  /\ registry_lock.writer = NoThread
  /\ t \notin registry_lock.readers
  /\ registry_lock' = [registry_lock EXCEPT !.readers = @ \cup {t}]
  /\ Pop(t)
  /\ UNCHANGED <<system_mutex, watcher_lock>>
  /\ UNCHANGED <<regVars, frameVars, bootVars, watchVars>>

ReleaseRead(t) ==
  /\ NextOp(t, "unread")
  /\ registry_lock' = [registry_lock EXCEPT !.readers = @ \ {t}]
  /\ Pop(t)
  /\ UNCHANGED <<system_mutex, watcher_lock>>
  /\ UNCHANGED <<regVars, frameVars, bootVars, watchVars>>

\* process.rs 22 and 49: SYSTEM.lock()
LockSystem(t) ==
  /\ NextOp(t, "lock")
  /\ system_mutex = NoThread
  /\ system_mutex' = t
  /\ Pop(t)
  /\ UNCHANGED <<registry_lock, watcher_lock>>
  /\ UNCHANGED <<regVars, frameVars, bootVars, watchVars>>

UnlockSystem(t) ==
  /\ NextOp(t, "unlock")
  /\ system_mutex' = NoThread
  /\ Pop(t)
  /\ UNCHANGED <<registry_lock, watcher_lock>>
  /\ UNCHANGED <<regVars, frameVars, bootVars, watchVars>>

\* watch.rs 49 and 151
WatcherWrite(t) ==
  /\ NextOp(t, "wwrite")
  /\ watcher_lock = Unlocked
  /\ watcher_lock' = [watcher_lock EXCEPT !.writer = t]
  /\ Pop(t)
  /\ UNCHANGED <<registry_lock, system_mutex>>
  /\ UNCHANGED <<regVars, frameVars, bootVars, watchVars>>

WatcherUnwrite(t) ==
  /\ NextOp(t, "wunwrite")
  /\ watcher_lock' = [watcher_lock EXCEPT !.writer = NoThread]
  /\ Pop(t)
  /\ UNCHANGED <<registry_lock, system_mutex>>
  /\ UNCHANGED <<regVars, frameVars, bootVars, watchVars>>

\* watch.rs 127
WatcherRead(t) ==
  /\ NextOp(t, "wread")
  /\ watcher_lock.writer = NoThread
  /\ t \notin watcher_lock.readers
  /\ watcher_lock' = [watcher_lock EXCEPT !.readers = @ \cup {t}]
  /\ Pop(t)
  /\ UNCHANGED <<registry_lock, system_mutex>>
  /\ UNCHANGED <<regVars, frameVars, bootVars, watchVars>>

\* watch.rs 150: drop(file_times)
WatcherUnread(t) ==
  /\ NextOp(t, "wunread")
  /\ watcher_lock' = [watcher_lock EXCEPT !.readers = @ \ {t}]
  /\ Pop(t)
  /\ UNCHANGED <<registry_lock, system_mutex>>
  /\ UNCHANGED <<regVars, frameVars, bootVars, watchVars>>

\* spawn, kill, a health probe, a sleep or a file operation returns.
SystemCalls == {"spawn", "signal", "probe", "sleep", "file"}
SystemCall(t) ==
  /\ ops[t] # <<>>
  /\ Head(ops[t]) \in SystemCalls
  /\ Pop(t)
  /\ UNCHANGED <<registry_lock, system_mutex, watcher_lock>>
  /\ UNCHANGED <<regVars, frameVars, bootVars, watchVars>>

LockNext ==
  \E t \in Threads :
    \/ BeginCall(t) \/ AcquireWrite(t) \/ ReleaseWrite(t) \/ AcquireRead(t)
    \/ ReleaseRead(t) \/ LockSystem(t) \/ UnlockSystem(t) \/ WatcherWrite(t)
    \/ WatcherUnwrite(t) \/ WatcherRead(t) \/ WatcherUnread(t) \/ SystemCall(t)

SpecLock == Init /\ [][LockNext]_vars

TypeOK ==
  /\ DOMAIN processes \subseteq Names
  /\ \A n \in DOMAIN processes : processes[n].state \in ProcessState
  /\ ptable \subseteq 1..MaxPid
  /\ nextPid \in 1..(MaxPid + 1)
  /\ cmdsLeft \in 0..MaxCmds


\* ----------------------------------------------------------------- claims
\* steps, as seen from outside the threads
HandlerReturns == cmdsLeft' # cmdsLeft
RefreshStep ==
  \/ pc["mon"] = "sleep" /\ pc'["mon"] = "check_dead"
  \/ pc["disp"] = "idle" /\ pc'["disp"] = "list_format"
SpawnFailed(t) == sp[t].pc = "create" /\ sp'[t].pc \notin {"create", "pid"}
Registered(n) == n \in DOMAIN processes
HasPid(p) == p.pid # 0

PidIffActive(procs) ==
  \A n \in DOMAIN procs : HasPid(procs[n]) <=> procs[n].state \in ActiveStates

\* C1: whenever a dispatcher handler returns, every record of the registry
\* has a pid exactly when its state is Starting, Running, Stopping or
\* Restarting.
C1_PidIffActiveAfterHandler ==
  [][HandlerReturns => PidIffActive(processes')]_vars

\* C2: in no registry state a thread can observe does a record hold a pid
\* while its state is Stopped.
C2_NoPidWhileStopped ==
  \A n \in DOMAIN processes :
    ~(HasPid(processes[n]) /\ processes[n].state = "Stopped")

\* C3: when the Stop handler returns after running the stop protocol on a
\* record that held a pid, the record is Stopped and its pid is cleared.
C3_StopEndsStopped ==
  [][(HandlerReturns /\ disp.cmd = "Stop" /\ disp.pid # 0
        /\ disp.arg \in DOMAIN processes')
       => (processes'[disp.arg].state = "Stopped"
           /\ ~HasPid(processes'[disp.arg]))]_vars

\* C4: whenever the spawn inside start_process fails, the record is
\* transitioned to Errored.
C4_SpawnFailureErrored ==
  [][\A t \in Threads :
       (SpawnFailed(t) /\ sp[t].name \in DOMAIN processes')
         => processes'[sp[t].name].state = "Errored"]_vars

\* C5: when refresh_metrics completes, every record that was Running with a
\* pid no live process has is Errored without pid, and every other record
\* has kept its state and pid.
C5_RefreshDetectsDead ==
  [][RefreshStep =>
       \A n \in DOMAIN processes :
         IF processes[n].state = "Running" /\ HasPid(processes[n])
            /\ processes[n].pid \notin ptable'
         THEN processes'[n].state = "Errored" /\ ~HasPid(processes'[n])
         ELSE /\ processes'[n].state = processes[n].state
              /\ processes'[n].pid = processes[n].pid]_vars

\* C6: under LiveSpec, when the child of a Running record with auto_restart
\* has exited, the record is eventually Running with another pid, unless a
\* handler runs meanwhile or the OS has no pid left; and a dead-process
\* restart leaves restart_count one higher than it found it.
DeadChild(n, p) ==
  /\ Registered(n)
  /\ processes[n].state = "Running"
  /\ processes[n].auto_restart
  /\ processes[n].pid = p
  /\ p \notin ptable
RunningAgain(n, p) ==
  /\ Registered(n)
  /\ processes[n].state = "Running"
  /\ processes[n].pid \notin {0, p}
Disturbed == pc["disp"] # "idle" \/ nextPid > MaxPid

C6_DeadChildRestarted ==
  /\ \A n \in Names, p \in 1..MaxPid :
       [](DeadChild(n, p) => <>(RunningAgain(n, p) \/ Disturbed))
  /\ [][(sp["mon"].pc = "pid" /\ sp["mon"].ret = "dead_ret" /\ sp'["mon"].pc = "none"
          /\ mon.proc.name \in DOMAIN processes')
         => processes'[mon.proc.name].restart_count
              = mon.proc.info.restart_count + 1]_vars

\* C7: the restart_count of a record never decreases while the record stays
\* in the registry.
C7_RestartCountMonotonic ==
  [][\A n \in DOMAIN processes \cap DOMAIN processes' :
       processes'[n].restart_count >= processes[n].restart_count]_vars

\* C8: when a health-check restart has re-spawned a record, its
\* restart_count is one more than before the restart.
C8_HealthRestartCounts ==
  [][(sp["mon"].pc = "pid" /\ sp["mon"].ret = "hc_ret" /\ sp'["mon"].pc = "none"
        /\ mon.proc.name \in DOMAIN processes')
       => processes'[mon.proc.name].restart_count
            = mon.proc.info.restart_count + 1]_vars

\* C9: when a file-change restart has re-spawned a record, its restart_count
\* is one more than before the restart.
C9_FileRestartCounts ==
  [][(sp["mon"].pc = "pid" /\ sp["mon"].ret = "fw_ret" /\ sp'["mon"].pc = "none"
        /\ mon.proc.name \in DOMAIN processes')
       => processes'[mon.proc.name].restart_count
            = mon.proc.info.restart_count + 1]_vars

\* C10: outside the monitor's update step the health_failures of a record
\* with a healthcheck never exceeds the retries of that healthcheck; the step
\* after a Healthy result leaves the counter 0, the step after an Unhealthy
\* result leaves it one higher, and when that reaches retries the monitor
\* goes on to the restart, which leaves the counter 0.
InUpdateStep(n) ==
  /\ mon.proc.name = n
  /\ pc["mon"] \in {"hc_inc", "hc_restarting", "hc_reset2"}
FailuresBounded(n) ==
  (Registered(n) /\ processes[n].healthcheck.some /\ ~InUpdateStep(n))
    => processes[n].health_failures <= processes[n].healthcheck.retries
HealthyResets ==
  (pc["mon"] = "hc_reset" /\ pc'["mon"] # "hc_reset"
   /\ mon.proc.name \in DOMAIN processes')
    => processes'[mon.proc.name].health_failures = 0
UnhealthyIncrements ==
  (pc["mon"] = "hc_inc" /\ pc'["mon"] # "hc_inc"
   /\ mon.proc.name \in DOMAIN processes')
    => /\ processes'[mon.proc.name].health_failures
            = processes[mon.proc.name].health_failures + 1
       /\ (processes'[mon.proc.name].health_failures
             >= mon.proc.info.healthcheck.retries)
            => pc'["mon"] = "hc_restarting"
RestartResets ==
  (pc["mon"] = "hc_reset2" /\ pc'["mon"] # "hc_reset2"
   /\ mon.proc.name \in DOMAIN processes')
    => processes'[mon.proc.name].health_failures = 0

C10_HealthFailuresBounded ==
  /\ [](\A n \in Names : FailuresBounded(n))
  /\ [][HealthyResets /\ UnhealthyIncrements /\ RestartResets]_vars

\* C11: when Disable(name) returns for a registered name, the record's
\* auto_restart is false and check_dead_processes does not return the name.
C11_DisableClearsAutoRestart ==
  [][(HandlerReturns /\ Len(reply') = 1 /\ reply'[1].k = "Disabled"
      /\ reply'[1].n \in DOMAIN processes')
     => /\ ~processes'[reply'[1].n].auto_restart
        /\ reply'[1].n \notin check_dead_processes(processes')]_vars

\* C12: a register call on a name that is already present fails (the handler
\* gets the "already exists" error and emits its warning line) and leaves
\* the record registered under that name exactly as it was; a warning is
\* emitted for no other reason.
LastLine(lines) == lines[Len(lines)]
WarnedNow(n) ==
  \/ /\ disp'.results # disp.results
     /\ disp'.results # <<>>
     /\ LastLine(disp'.results) = Line("Warning", n)
  \/ /\ HandlerReturns
     /\ reply' # <<>>
     /\ LastLine(reply') = Line("Warning", n)
RegistersNow(n) ==
  \/ /\ pc["disp"] = "start_reg"
     /\ (pc'["disp"] # "start_reg" \/ disp' # disp)
     /\ Head(disp.apps).name = n
  \/ /\ pc["disp"] = "idle"
     /\ disp'.cmd = "Start"
     /\ Head(get_apps(disp'.arg)).name = n

C12_DuplicateRegisterFails ==
  [][\A n \in Names :
       /\ WarnedNow(n) => (Registered(n) /\ processes'[n] = processes[n])
       /\ (RegistersNow(n) /\ Registered(n))
            => (WarnedNow(n) /\ processes'[n] = processes[n])]_vars

C12_Witness ==
  \E n \in DOMAIN processes :
    /\ reply # <<>>
    /\ LastLine(reply) = Line("Warning", n)
    /\ processes[n].state = "Running"

\* C13: the step in which a thread calls update_pid(name, Some(pid)) leaves
\* the record with that pid, started_at set and state Running, all at once
\* and nothing else changed; the step in which handle_stop calls
\* update_pid(name, None) changes only the pid of the record.
SetsPid(t) == sp[t].pc = "pid" /\ sp'[t] # sp[t] /\ pc'["disp"] # "panicked"
ClearsPid == pc["disp"] = "stop_clear" /\ pc'["disp"] # "stop_clear"

C13_UpdatePidAtomic ==
  [][/\ \A t \in Threads :
          (SetsPid(t) /\ Registered(sp[t].name))
            => processes'[sp[t].name]
                 = [processes[sp[t].name] EXCEPT !.pid = sp[t].pid,
                                                 !.started_at = TRUE,
                                                 !.state = "Running"]
     /\ (ClearsPid /\ Registered(disp.arg))
          => processes'[disp.arg] = [processes[disp.arg] EXCEPT !.pid = 0]]_vars

C13_Witness ==
  \E n \in DOMAIN processes :
    /\ reply # <<>>
    /\ LastLine(reply) = Line("Stopped", n)
    /\ processes[n].state = "Stopped"
    /\ processes[n].pid = 0
    /\ processes[n].started_at

\* C14: the step that emits "Started: n" leaves record n Running with a
\* pid; when Stop returns "Stopped: n" record n is Stopped with no pid; and
\* while the dispatcher serves nothing after that reply, record n stays
\* Stopped with no pid.
EmitsStarted(n) ==
  /\ sp["disp"].pc = "pid" /\ sp["disp"].ret = "start_ret"
  /\ sp'["disp"] # sp["disp"]
  /\ \/ disp'.results # <<>> /\ LastLine(disp'.results) = Line("Started", n)
     \/ HandlerReturns /\ LastLine(reply') = Line("Started", n)
StoppedIdle(n) ==
  /\ pc["disp"] = "idle"
  /\ reply = <<Line("Stopped", n)>>
  /\ Registered(n)
  /\ processes[n].state = "Stopped"
  /\ ~HasPid(processes[n])

C14_Lifecycle ==
  [][\A n \in Names :
       /\ EmitsStarted(n)
            => (n \in DOMAIN processes' /\ processes'[n].state = "Running"
                /\ HasPid(processes'[n]))
       /\ (HandlerReturns /\ reply' = <<Line("Stopped", n)>>)
            => (n \in DOMAIN processes' /\ processes'[n].state = "Stopped"
                /\ ~HasPid(processes'[n]))
       /\ (StoppedIdle(n) /\ pc'["disp"] = "idle" /\ cmdsLeft' = cmdsLeft)
            => (n \in DOMAIN processes' /\ processes'[n].state = "Stopped"
                /\ ~HasPid(processes'[n]))]_vars

\* C15: when Start returns, every application of the descriptor for which a
\* duplicate-name warning was emitted has been spawned all the same (its
\* "Started" or "Failed to start" line is in the reply), and the application
\* whose "Started" line ends the reply is Running.
Lines(seq) == {seq[i] : i \in 1..Len(seq)}

C15_StartSpawnsDuplicates ==
  [][\A n \in Names :
       /\ (HandlerReturns /\ Line("Warning", n) \in Lines(reply'))
            => (Line("Started", n) \in Lines(reply')
                \/ Line("FailedToStart", n) \in Lines(reply'))
       /\ (HandlerReturns /\ reply' # <<>>
           /\ LastLine(reply') = Line("Started", n))
            => (n \in DOMAIN processes' /\ processes'[n].state = "Running")]_vars

\* C16: a Stop or Logs command whose argument is an ID of the list table is
\* served on the record listed under that ID: it is not answered "not found"
\* while the table has a row with that ID.
IdIndex(i) == IF i = "0" THEN 0 ELSE 1
IdListed(i) == IdIndex(i) < Cardinality(DOMAIN processes)

C16_CommandsAcceptIds ==
  [][\A i \in Ids :
       (pc["disp"] = "idle" /\ HandlerReturns /\ IdListed(i))
         => reply' # <<Line("NotFound", i)>>]_vars

\* C17: when Delete returns "Deleted: n", record n is gone from the registry
\* and the monitor holds no file watcher keyed by n; and the monitor's poll
\* of its watchers flags no name that is not registered.
C17_DeleteCancelsWatcher ==
  [][\A n \in Names :
       /\ (HandlerReturns /\ reply' # <<>>
           /\ LastLine(reply') = Line("Deleted", n))
            => (n \notin DOMAIN processes' /\ n \notin file_watchers')
       /\ (pc["mon"] = "poll" /\ pc'["mon"] # "poll" /\ ~Registered(n))
            => n \notin mon'.to_restart]_vars

\* C18: after its reload Resurrect starts exactly the records that are
\* Running or Stopped in the list it takes, each once, none of another
\* state; each start that succeeds adds "Resurrected: n" and each that fails
\* "Failed to resurrect n", so the reply has one line for each such record.
ShouldSpawn ==
  {n \in DOMAIN processes : processes[n].state \in {"Running", "Stopped"}}
ResurrectLists == pc["disp"] = "res_list" /\ pc'["disp"] # "res_list"
ResurrectReturns ==
  /\ sp["disp"].ret = "res_ret"
  /\ sp["disp"].pc \in {"create", "pid"}
  /\ sp'["disp"] # sp["disp"]
  /\ sp'["disp"].pc # "pid"
ResurrectCalls(todo) ==
  /\ sp'["disp"].pc = "state"
  /\ sp'["disp"].ret = "res_ret"
  /\ sp'["disp"].name \in todo
  /\ disp'.todo = todo \ {sp'["disp"].name}
ResurrectLine ==
  Line(IF sp["disp"].pc = "pid" /\ Registered(sp["disp"].name)
       THEN "Resurrected" ELSE "FailedToResurrect", sp["disp"].name)

RoundTrip(procs) == load_state(EmptyMap, save_state(procs))

DeclaresHealthcheck(n) ==
  \E path \in Paths : \E i \in 1..Len(get_apps(path)) :
    get_apps(path)[i].name = n /\ get_apps(path)[i].healthcheck # HcNone

C20_ResurrectRebuildsHealthcheck ==
  [][(HandlerReturns /\ (ResurrectLists \/ ResurrectReturns))
       => \A n \in DOMAIN processes' :
            DeclaresHealthcheck(n) => processes'[n].healthcheck # HcNone]_vars

\* C29: whatever the command, the registry and the descriptor on disk, the
\* handler returns a reply and the dispatcher loop goes on: no handler makes
\* the dispatcher thread panic.
C29_DispatcherNeverAborts == pc["disp"] # "panicked"

\* C30: while the daemon runs the monitor loop runs: no health probe, spawn
\* or file-watch scan ends the monitor thread, so each iteration is followed
\* by another.
C30_MonitorNeverStops == pc["disp"] # "panicked" => pc["mon"] # "panicked"

\* C21: once send_response has returned for a non-empty body of L bytes it
\* has emitted ceil(L/CAPACITY) chunks, numbered 0, 1, .. in transmission
\* order, each with 1..CAPACITY payload bytes and all but the last with
\* exactly CAPACITY, and is_last is set on the final chunk only.
ChunkCount(len) ==
  (len + CHUNK_PAYLOAD_CAPACITY - 1) \div CHUNK_PAYLOAD_CAPACITY

C21_ChunkNumbering ==
  (server_pc = "sent" /\ response_bytes # <<>>) =>
    /\ Len(sent) = ChunkCount(Len(response_bytes))
    /\ \A i \in 1..Len(sent) :
         /\ sent[i].sequence_number = i - 1
         /\ sent[i].used_payload_size \in 1..CHUNK_PAYLOAD_CAPACITY
         /\ i < Len(sent) => sent[i].used_payload_size = CHUNK_PAYLOAD_CAPACITY
         /\ sent[i].is_last <=> i = Len(sent)

C21_Witness ==
  /\ server_pc = "sent"
  /\ Len(sent) > 2
  /\ sent[Len(sent)].used_payload_size < CHUNK_PAYLOAD_CAPACITY
  /\ sent[Len(sent)].is_last

\* C22: for every reply body, when the chunks are delivered in transmission
\* order and all that send_response produced have been delivered, the client
\* has the complete message and its chunks joined in sequence_number order are
\* the body; what it returns is the body.
Assembled == extend(received_chunks, DOMAIN received_chunks)
AllDelivered == server_pc = "sent" /\ Pending = {}

C22_FramingRoundTrip ==
  (in_order /\ AllDelivered /\ client_pc \in {"waiting", "returned"}) =>
    /\ message_complete
    /\ Assembled = response_bytes
    /\ client_pc = "returned" => full_message_bytes = response_bytes

\* C23: an empty body is sent as one chunk with sequence_number 0,
\* used_payload_size 0 and is_last set.
C23_EmptyBodyOneChunk ==
  (server_pc = "sent" /\ response_bytes = <<>>) =>
    sent = <<MessageChunk(0, TRUE, 0, <<>>)>>

\* C24: when the chunks arrive in another order than they were sent, the
\* client returns only after it has every chunk 0..n-1, and returns the body.
C24_ReorderedChunks ==
  (~in_order /\ client_pc = "returned") =>
    /\ DOMAIN received_chunks = 0..(ChunkCount(Len(response_bytes)) - 1)
    /\ full_message_bytes = response_bytes

\* C25: the client returns a body only after it received a chunk with
\* is_last; when it times out no such chunk was received and it returns no
\* body, not even a partial one.
LastReceived == \E i \in delivered : sent[i].is_last

C25_ReturnsOnlyAfterLast ==
  /\ client_pc = "returned" => LastReceived
  /\ client_pc = "timed_out" => ~LastReceived
  /\ client_pc # "returned" => full_message_bytes = <<>>

C25_Witness ==
  /\ client_pc = "timed_out"
  /\ delivered # {}
  /\ Assembled # <<>>
  /\ full_message_bytes = <<>>

\* C26: for every string shorter than CAPACITY bytes, what the dispatcher
\* decodes from the payload that the client encoded is the string.
C26_PayloadRoundTrip ==
  (server_pc # "receive" /\ Len(command.sent) < CHUNK_PAYLOAD_CAPACITY) =>
    decoded = command.sent

\* C27: however daemon startups of one user interleave, at most one daemon
\* serves on the service name, and every other invocation ends by reporting
\* that another instance is running (exit code 1), never in another way.
Serving == {d \in Daemons : dpc[d] = "serving"}

C27_SingleDaemon ==
  /\ Cardinality(Serving) <= 1
  /\ \A d \in Daemons : dpc[d] # "failed"

\* C28: a daemon refuses to start (exit code 1) only when another daemon
\* holds the service; a client that opened the service name while no daemon
\* serves does not make a starting daemon refuse.
C28_RefusesOnlyForDaemon ==
  [][\A d \in Daemons :
       (dpc[d] = "init" /\ dpc'[d] = "exit1")
         => \E e \in Daemons \ {d} : dpc[e] \in {"opened", "serving"}]_vars

\* C31: the client process exits with code 0 exactly when request_server
\* returned a complete reply, and with a non-zero code when the command was
\* not delivered or the reply timed out.
C31_ExitCode ==
  exit_code # <<>> => (exit_code = <<0>> <=> client_pc = "returned")

\* C32: in a monitor iteration the steps run one after the other for the
\* whole fleet: a file watcher is initialised only when the health-check step
\* has gone through every record of the running list, and the watchers are
\* polled only when every initialisation is done.
MonitorStep == pc'["mon"] # pc["mon"] \/ mon' # mon \/ sp'["mon"] # sp["mon"]
InitialisesWatcher == MonitorStep /\ file_watchers' # file_watchers
HealthChecksLeft == {p \in mon'.running : p.info.healthcheck.some}
PollsWatchers == pc["mon"] = "poll" /\ pc'["mon"] # "poll"

C32_StepOrder ==
  [][/\ InitialisesWatcher => HealthChecksLeft = {}
     /\ PollsWatchers => mon.running = {}]_vars


\* C33: a health check runs in a monitor iteration only on a record that is
\* Running with a healthcheck and that is due (never checked and started, or
\* checked before); and every check that runs sets last_health_check and
\* health_status of the record.
ProbeRuns ==
  /\ pc["mon"] = "run_loop"
  /\ pc'["mon"] \in {"hc_reset", "hc_inc"}
ProbedName == mon'.proc.name
C33_HealthCheckDue ==
  [][ProbeRuns =>
       /\ contains_key(processes, ProbedName)
       /\ processes[ProbedName].state = "Running"
       /\ processes[ProbedName].healthcheck.some
       /\ processes[ProbedName].last_health_check \/ processes[ProbedName].started_at
       /\ processes'[ProbedName].last_health_check
       /\ processes'[ProbedName].health_status \in {"Healthy", "Unhealthy"}]_vars


\* C36: when Delete(name) returns the name is absent from the registry and the
\* child its record pointed to is not alive; and no thread ever holds a freshly
\* spawned, live child for a name that the registry has no record of, so a
\* monitor restart racing with the delete leaves no orphan.
DeleteReturns ==
  /\ pc["disp"] = "delete_remove"
  /\ pc'["disp"] = "idle"
  /\ Registered(disp.arg)
UntrackedChild(t) ==
  /\ sp'[t].pc = "pid"
  /\ sp'[t].pid \in ptable'
  /\ sp'[t].name \notin DOMAIN processes'
C36_DeleteLeavesNoChild ==
  [][/\ DeleteReturns =>
          /\ disp.arg \notin DOMAIN processes'
          /\ processes[disp.arg].pid \notin ptable'
     /\ \A t \in DOMAIN sp : ~UntrackedChild(t)]_vars


\* C37: whenever a child is spawned for a record, the child that the record
\* pointed to before has terminated; and when the new pid is stored the record
\* has no other live child, so each record has at most one live child.
SpawnsFor(t) == sp[t].pc = "create" /\ sp'[t].pc = "pid"
EarlierChildAlive(t) ==
  /\ Registered(sp[t].name)
  /\ processes[sp[t].name].pid \in ptable
C37_OneChildPerRecord ==
  [][\A t \in DOMAIN sp : SpawnsFor(t) => ~EarlierChildAlive(t)]_vars


\* C38: no step of the monitor moves a record that is Stopped with no pid out
\* of Stopped, gives it a pid, or spawns a child for it; only a step of the
\* dispatcher, serving a later command, does.
DispatcherStill ==
  /\ pc'["disp"] = pc["disp"]
  /\ disp' = disp
  /\ sp'["disp"] = sp["disp"]
OperatorStopped(n) ==
  /\ Registered(n)
  /\ processes[n].state = "Stopped"
  /\ ~HasPid(processes[n])
C38_StoppedStaysStopped ==
  [][\A n \in Names :
       (DispatcherStill /\ OperatorStopped(n)) =>
          /\ n \in DOMAIN processes'
          /\ processes'[n].state = "Stopped"
          /\ ~HasPid(processes'[n])
          /\ ~(SpawnsFor("mon") /\ sp["mon"].name = n)]_vars


\* C39: under LiveSpec, a record that is Starting, Stopping or Restarting
\* eventually leaves that state (for Running, Stopped or Errored, or by being
\* removed), unless a handler runs meanwhile, the OS has no pid left or the
\* monitor thread has died; also after a failed spawn or a failed signal.
Transient(n) ==
  /\ Registered(n)
  /\ processes[n].state \in {"Starting", "Stopping", "Restarting"}
C39_TransientLeaves ==
  \A n \in Names :
    [](Transient(n) => <>(~Transient(n) \/ Disturbed \/ pc["mon"] = "panicked"))


\* C35: a check_changes that returns lists exactly the watched paths that are
\* present now but not in the snapshot, in the snapshot but not present now,
\* or in both with different times, each once, and leaves the fresh scan as
\* the snapshot; so a check with no change of the watched files since the
\* last one returns the empty list.
Watched(p) == p.dir \notin ignore_dirs /\ p.ext \in patterns
ChangedPaths ==
  {p \in Files :
     /\ Watched(p)
     /\ \/ p \in DOMAIN fs /\ p \notin DOMAIN file_times
        \/ p \in DOMAIN file_times /\ p \notin DOMAIN fs
        \/ p \in DOMAIN fs /\ p \in DOMAIN file_times /\ fs[p] # file_times[p]}
Reported(list) == {list[i] : i \in 1..Len(list)}
WatchedNow == [p \in {q \in DOMAIN fs : Watched(q)} |-> fs[p]]
ChecksChanges == fs' = fs /\ <<file_times, changed>>' # <<file_times, changed>>
C35_CheckChanges ==
  [][ChecksChanges =>
       /\ Reported(changed') = ChangedPaths
       /\ Len(changed') = Cardinality(ChangedPaths)
       /\ file_times' = WatchedNow
       /\ file_times = WatchedNow => changed' = <<>>]_vars
C35_Witness ==
  /\ Len(changed) = 2
  /\ \E i \in 1..2 : changed[i] \notin DOMAIN fs
  /\ \E i \in 1..2 : changed[i] \in DOMAIN fs
  /\ file_times = WatchedNow


\* C34: no thread holds the write guard of the registry while it spawns a
\* child, sends a signal, runs a health probe or sleeps; under the write guard
\* a thread does nothing but look at the SYSTEM table.
BlockingCalls == {"spawn", "signal", "probe", "sleep"}
C34_NoWriteLockAcrossBlocking ==
  \A t \in Threads :
    (ops[t] # <<>> /\ registry_lock.writer = t) =>
       /\ Head(ops[t]) \notin BlockingCalls
       /\ Head(ops[t]) \in {"unwrite", "lock", "unlock"}
C34_Witness ==
  /\ NextOp("mon", "spawn")
  /\ registry_lock.writer = "disp"
  /\ NextOp("disp", "unwrite")

\* C40: the two threads never deadlock: whenever a thread waits for a lock,
\* some thread can take a step; a thread that holds SYSTEM never asks for the
\* registry lock (the registry lock comes first); and no thread asks for a
\* lock of which it holds a guard.
Holds(lock, t) == lock.writer = t \/ t \in lock.readers
Waits(t) ==
  \/ NextOp(t, "write") /\ registry_lock # Unlocked
  \/ NextOp(t, "read") /\ (registry_lock.writer # NoThread \/ t \in registry_lock.readers)
  \/ NextOp(t, "lock") /\ system_mutex # NoThread
  \/ NextOp(t, "wwrite") /\ watcher_lock # Unlocked
  \/ NextOp(t, "wread") /\ (watcher_lock.writer # NoThread \/ t \in watcher_lock.readers)
C40_NoDeadlock ==
  /\ \E t \in Threads : ~Waits(t)
  /\ \A t \in Threads :
       /\ system_mutex = t => ~(NextOp(t, "write") \/ NextOp(t, "read"))
       /\ (NextOp(t, "write") \/ NextOp(t, "read")) => ~Holds(registry_lock, t)
       /\ NextOp(t, "lock") => system_mutex # t
       /\ (NextOp(t, "wwrite") \/ NextOp(t, "wread")) => ~Holds(watcher_lock, t)
C40_Witness ==
  /\ registry_lock.writer = "mon"
  /\ system_mutex = "mon"
  /\ Waits("disp")
====
